---- MODULE Spec2Model ----
(***************************************************************************)
(* Model of apps/node/app/src-tauri/src/commands/staking.rs: the Tauri     *)
(* staking commands get_staking_info, stake, unstake, claim_rewards,       *)
(* enable_auto_claim and get_pending_rewards, run as concurrent tasks over *)
(* the shared AppState guarded by state.inner (an async read/write lock).  *)
(*                                                                         *)
(* Option<T> values are sets: None is {} and Some(x) is {x}.               *)
(* Result<T, String> values are records tagged "Ok" / "Err".               *)
(* Decimal strings are sequences of one-character strings.                 *)
(***************************************************************************)
EXTENDS Integers, Sequences, FiniteSets, TLC

\* ------------------------------------------------------------------ bounds
\* Largest value of the (scaled-down) U256 type.
U256Max == 15
\* Largest amount the chain reports for a stake or a pending reward.
MaxWei == 1

\* The concurrently running command tasks.
Procs == {"p1", "p2"}

None == {}
Some(x) == {x}

\* ------------------------------------------------------- inputs of the model
\* request.amount_wei values handed to stake.
AmountInputs ==
    { <<"0">>, <<"7">>, <<"1", "5">>, <<"1", "6">>, <<"-", "1">> }
\* Stored auto_claim_threshold_wei / auto_claim_interval_hours values.
ThresholdValues == {"100", "500"}
IntervalValues == {6, 24}
\* threshold_wei / interval_hours arguments handed to enable_auto_claim.
ThresholdArgs == {None, Some("500")}
IntervalArgs == {None, Some(24)}
\* config.network.rpc_url values: one that parses as a URL, one that does not.
RpcUrls == {"http://rpc", "not a url"}
\* wallet_manager.address() values of a connected wallet.
Addresses == {"0xA11CE", "zz"}

\* ------------------------------------------------------------ pure helpers
Digits == <<"0", "1", "2", "3", "4", "5", "6", "7", "8", "9">>

DigitSet == {Digits[i] : i \in 1..10}

DigitValue(c) == (CHOOSE i \in 1..10 : Digits[i] = c) - 1

\* U256::to_string: the decimal rendering of n.
RECURSIVE to_string(_)
to_string(n) ==
    IF n < 10 THEN <<Digits[n + 1]>>
    ELSE to_string(n \div 10) \o <<Digits[(n % 10) + 1]>>

\* The number a string of decimal digits denotes.
RECURSIVE DecimalValue(_)
DecimalValue(s) ==
    IF s = <<>> THEN 0
    ELSE 10 * DecimalValue(SubSeq(s, 1, Len(s) - 1)) + DigitValue(s[Len(s)])

\* U256::from_str on a decimal string: Err on a character that is not a
\* digit and on a value that does not fit the type.
U256_from_str(s) ==
    IF \E i \in 1..Len(s) : s[i] \notin DigitSet
    THEN [tag |-> "Err", msg |-> "invalid digit", cause |-> ""]
    ELSE IF DecimalValue(s) > U256Max
         THEN [tag |-> "Err", msg |-> "overflow", cause |-> ""]
         ELSE [tag |-> "Ok", value |-> DecimalValue(s)]

\* rpc_url.parse(): whether the configured URL parses.
url_parse_ok(url) == url = "http://rpc"

\* Address::from_str(&wallet_address): whether the wallet address parses.
address_parse_ok(a) == a = "0xA11CE"

\* Result values: Err carries the message and the error it was formatted from.
ErrWith(m, e) == [tag |-> "Err", msg |-> m, cause |-> e]
Err(m) == ErrWith(m, "")
Ok(v) == [tag |-> "Ok", value |-> v]

\* ------------------------------------------------------------------- state
VARIABLES
    config,          \* inner.config: the configuration held in AppState
    disk,            \* the configuration last written by config.save()
    wallet_manager,  \* inner.wallet_manager: Option<WalletManager>
    readers,         \* tasks holding a read guard of state.inner
    writer,          \* tasks holding the write guard of state.inner
    pc,              \* position of each task
    cmd,             \* the command a task runs, with its arguments
    local,           \* local variables of the running command
    ret,             \* value returned by the task's last command
    rpc_calls,       \* contract read calls (.call().await) of the invocation
    tx_sends         \* transaction submissions (.send().await) of it

vars == <<config, disk, wallet_manager, readers, writer, pc, cmd, local, ret,
          rpc_calls, tx_sends>>

env == <<wallet_manager>>

Configs ==
    [auto_claim : BOOLEAN,
     auto_claim_threshold_wei : ThresholdValues,
     auto_claim_interval_hours : IntervalValues,
     rpc_url : RpcUrls]

\* Option<WalletManager>: a connected wallet has an optional address and an
\* optional signer.
WalletManagers ==
    { None } \cup
    { Some([address |-> a, signer |-> s]) :
        a \in {None} \cup {Some(x) : x \in Addresses}, s \in BOOLEAN }

NoCmd ==
    [name |-> "none", amount_wei |-> <<>>, enabled |-> FALSE,
     threshold_wei |-> None, interval_hours |-> None]

NoLocal ==
    [provider |-> "unbuilt", stake_result |-> [tag |-> "None"],
     pending |-> [tag |-> "None"], total_staked |-> 0, total_pending |-> 0,
     staked_by_service |-> <<>>]

Init ==
    /\ config \in Configs
    /\ disk = config
    /\ wallet_manager \in WalletManagers
    /\ readers = {}
    /\ writer = {}
    /\ pc = [p \in Procs |-> "idle"]
    /\ cmd = [p \in Procs |-> NoCmd]
    /\ local = [p \in Procs |-> NoLocal]
    /\ ret = [p \in Procs |-> [tag |-> "None"]]
    /\ rpc_calls = [p \in Procs |-> 0]
    /\ tx_sends = [p \in Procs |-> 0]

\* A task can start a command when it runs none.
Ready(p) == pc[p] \in {"idle", "done"}

\* state.inner.read().await: granted while no task holds the write guard.
read_lock(p) ==
    /\ writer = {}
    /\ readers' = readers \cup {p}
    /\ UNCHANGED writer

\* Variant of write_lock that takes the guard the way a read guard is taken.
write_lock_shared(p) ==
    /\ writer = {}
    /\ writer' = {p}
    /\ UNCHANGED readers

\* state.inner.write().await: granted while no task holds any guard.
write_lock(p) ==
    /\ writer = {}
    /\ readers = {}
    /\ writer' = {p}
    /\ UNCHANGED readers

\* The guard `inner` is dropped when the command returns.
drop_guard(p) ==
    /\ readers' = readers \ {p}
    /\ writer' = writer \ {p}

\* A command starts: fresh locals, no result yet, no network traffic yet.
Start(p, c, next) ==
    /\ Ready(p)
    /\ cmd' = [cmd EXCEPT ![p] = c]
    /\ local' = [local EXCEPT ![p] = NoLocal]
    /\ ret' = [ret EXCEPT ![p] = [tag |-> "None"]]
    /\ rpc_calls' = [rpc_calls EXCEPT ![p] = 0]
    /\ tx_sends' = [tx_sends EXCEPT ![p] = 0]
    /\ pc' = [pc EXCEPT ![p] = next]

\* A command returns r and drops its guard.
Return(p, r) ==
    /\ ret' = [ret EXCEPT ![p] = r]
    /\ pc' = [pc EXCEPT ![p] = "done"]
    /\ drop_guard(p)


\* --------------------------------------------------------- get_staking_info
\* The StakingInfo literal the command returns.
StakingInfo(total_staked, positions, total_pending, auto_claim) ==
    [total_staked_wei |-> to_string(total_staked),
     total_staked_usd |-> 0,
     staked_by_service |-> positions,
     pending_rewards_wei |-> to_string(total_pending),
     pending_rewards_usd |-> 0,
     can_unstake |-> total_staked > 0,
     unstake_cooldown_seconds |-> 0,
     auto_claim_enabled |-> auto_claim,
     next_auto_claim_timestamp |-> None]

\* The summary returned when inner.wallet_manager is None.
DisconnectedInfo(cfg) ==
    [total_staked_wei |-> <<"0">>,
     total_staked_usd |-> 0,
     staked_by_service |-> <<>>,
     pending_rewards_wei |-> <<"0">>,
     pending_rewards_usd |-> 0,
     can_unstake |-> FALSE,
     unstake_cooldown_seconds |-> 0,
     auto_claim_enabled |-> cfg.auto_claim,
     next_auto_claim_timestamp |-> None]

\* The compute position pushed by get_staking_info.
ComputeStakeInfo(stake_amount) ==
    [service_id |-> "compute",
     service_name |-> "Compute Provider",
     staked_wei |-> to_string(stake_amount),
     staked_usd |-> 0,
     pending_rewards_wei |-> <<"0">>,
     stake_token |-> "ETH",
     min_stake_wei |-> "100000000000000000"]

\* The address and provider set-up shared by the two read commands: the
\* error it stops with, or None.
read_check(wm, cfg, provider_ok) ==
    LET w == CHOOSE x \in wm : TRUE IN
    IF w.address = None THEN Some("Wallet address not available")
    ELSE IF ~address_parse_ok(CHOOSE a \in w.address : TRUE)
         THEN Some("Invalid address")
    ELSE IF ~url_parse_ok(cfg.rpc_url) THEN Some("Invalid RPC URL")
    ELSE IF ~provider_ok THEN Some("Failed to create provider")
    ELSE None

\* What became of the provider, given the error the set-up stopped with.
ProviderState(e) ==
    IF e = None THEN "ok"
    ELSE IF e = Some("Failed to create provider") THEN "failed"
    ELSE "unbuilt"

\* The outcomes of a contract read call: an error or an amount.
CallResults == {Err("call failed")} \cup {Ok(v) : v \in 0..MaxWei}

get_staking_info_lock(p) ==
    /\ Start(p, [NoCmd EXCEPT !.name = "get_staking_info"], "gsi_resolve")
    /\ read_lock(p)
    /\ UNCHANGED <<config, disk, env>>

get_staking_info_resolve(p) ==
    /\ pc[p] = "gsi_resolve"
    /\ IF wallet_manager = None
       THEN /\ Return(p, Ok(DisconnectedInfo(config)))
            /\ UNCHANGED local
       ELSE \E provider_ok \in BOOLEAN :
              LET e == read_check(wallet_manager, config, provider_ok) IN
              /\ local' = [local EXCEPT ![p].provider = ProviderState(e)]
              /\ IF e # None
                 THEN Return(p, Err(CHOOSE m \in e : TRUE))
                 ELSE /\ pc' = [pc EXCEPT ![p] = "gsi_getStake"]
                      /\ UNCHANGED <<ret, readers, writer>>
    /\ UNCHANGED <<config, disk, env, cmd, rpc_calls, tx_sends>>

\* The effect of the getStake result on the locals.
apply_getStake(l, r) ==
    IF r.tag = "Ok" /\ r.value > 0
    THEN [l EXCEPT !.stake_result = r,
                   !.total_staked = (l.total_staked + r.value) % (U256Max + 1),
                   !.staked_by_service =
                       Append(l.staked_by_service, ComputeStakeInfo(r.value))]
    ELSE [l EXCEPT !.stake_result = r]

get_staking_info_getStake(p) ==
    /\ pc[p] = "gsi_getStake"
    /\ \E r \in CallResults :
         local' = [local EXCEPT ![p] = apply_getStake(local[p], r)]
    /\ rpc_calls' = [rpc_calls EXCEPT ![p] = @ + 1]
    /\ pc' = [pc EXCEPT ![p] = "gsi_pendingRewards"]
    /\ UNCHANGED <<config, disk, env, readers, writer, cmd, ret, tx_sends>>

\* The effect of the pendingRewards result on the locals.
apply_pendingRewards(l, r) ==
    IF r.tag = "Ok"
    THEN [l EXCEPT !.pending = r,
                   !.total_pending = (l.total_pending + r.value) % (U256Max + 1)]
    ELSE [l EXCEPT !.pending = r]

get_staking_info_pendingRewards(p) ==
    /\ pc[p] = "gsi_pendingRewards"
    /\ \E r \in CallResults :
         LET l == apply_pendingRewards(local[p], r) IN
         /\ local' = [local EXCEPT ![p] = l]
         /\ Return(p, Ok(StakingInfo(l.total_staked, l.staked_by_service,
                                     l.total_pending, config.auto_claim)))
    /\ rpc_calls' = [rpc_calls EXCEPT ![p] = @ + 1]
    /\ UNCHANGED <<config, disk, env, cmd, tx_sends>>

\* ------------------------------------------------------ get_pending_rewards
\* The compute position pushed by get_pending_rewards.
ComputePendingInfo(pending_amount) ==
    [service_id |-> "compute",
     service_name |-> "Compute Provider",
     staked_wei |-> <<"0">>,
     staked_usd |-> 0,
     pending_rewards_wei |-> to_string(pending_amount),
     stake_token |-> "ETH",
     min_stake_wei |-> "100000000000000000"]

get_pending_rewards_lock(p) ==
    /\ Start(p, [NoCmd EXCEPT !.name = "get_pending_rewards"], "gpr_resolve")
    /\ read_lock(p)
    /\ UNCHANGED <<config, disk, env>>

get_pending_rewards_resolve(p) ==
    /\ pc[p] = "gpr_resolve"
    /\ IF wallet_manager = None
       THEN /\ Return(p, Ok(<<>>))
            /\ UNCHANGED local
       ELSE \E provider_ok \in BOOLEAN :
              LET e == read_check(wallet_manager, config, provider_ok) IN
              /\ local' = [local EXCEPT ![p].provider = ProviderState(e)]
              /\ IF e # None
                 THEN Return(p, Err(CHOOSE m \in e : TRUE))
                 ELSE /\ pc' = [pc EXCEPT ![p] = "gpr_pendingRewards"]
                      /\ UNCHANGED <<ret, readers, writer>>
    /\ UNCHANGED <<config, disk, env, cmd, rpc_calls, tx_sends>>

get_pending_rewards_pendingRewards(p) ==
    /\ pc[p] = "gpr_pendingRewards"
    /\ \E r \in CallResults :
         /\ local' = [local EXCEPT ![p].pending = r]
         /\ Return(p, Ok(IF r.tag = "Ok" /\ r.value > 0
                         THEN <<ComputePendingInfo(r.value)>>
                         ELSE <<>>))
    /\ rpc_calls' = [rpc_calls EXCEPT ![p] = @ + 1]
    /\ UNCHANGED <<config, disk, env, cmd, tx_sends>>


\* -------------------------------------------------------------------- stake
\* The outcomes of tx.send().await: a transport error or the pending
\* transaction, identified by its hash.
SendResults == {Err("transport error"), Ok("0xtx")}

\* wallet_manager.get_signer(): whether the connected wallet has a signer.
get_signer(wm) == (CHOOSE w \in wm : TRUE).signer

\* Variant of stake_check without the signer check.
stake_check_no_signer(request, wm, cfg, provider_ok) ==
    IF wm = None THEN Some("Wallet not connected")
    ELSE IF U256_from_str(request.amount_wei).tag = "Err"
         THEN Some("Invalid amount")
    ELSE IF ~url_parse_ok(cfg.rpc_url) THEN Some("Invalid RPC URL")
    ELSE IF ~provider_ok THEN Some("Failed to create provider")
    ELSE None

\* The checks of stake before its transaction is sent, in source order: the
\* error stake stops with, or None.
stake_check(request, wm, cfg, provider_ok) ==
    IF wm = None THEN Some("Wallet not connected")
    ELSE IF U256_from_str(request.amount_wei).tag = "Err"
         THEN Some("Invalid amount")
    ELSE IF ~get_signer(wm) THEN Some("Wallet not initialized")
    ELSE IF ~url_parse_ok(cfg.rpc_url) THEN Some("Invalid RPC URL")
    ELSE IF ~provider_ok THEN Some("Failed to create provider")
    ELSE None

\* Variant of stake_ok that reports a zero stake, as unstake does.
stake_ok_zero(request, tx_hash) ==
    [success |-> TRUE,
     tx_hash |-> Some(tx_hash),
     new_stake_wei |-> <<"0">>,
     error |-> None]

\* The StakeResult stake returns once its transaction was accepted.
stake_ok(request, tx_hash) ==
    [success |-> TRUE,
     tx_hash |-> Some(tx_hash),
     new_stake_wei |-> request.amount_wei,
     error |-> None]

stake_lock(p) ==
    /\ \E a \in AmountInputs :
         Start(p, [NoCmd EXCEPT !.name = "stake", !.amount_wei = a],
               "stake_check")
    /\ read_lock(p)
    /\ UNCHANGED <<config, disk, env>>

stake_pre(p) ==
    /\ pc[p] = "stake_check"
    /\ \E provider_ok \in BOOLEAN :
         LET e == stake_check(cmd[p], wallet_manager, config, provider_ok) IN
         /\ local' = [local EXCEPT ![p].provider = ProviderState(e)]
         /\ IF e # None
            THEN Return(p, Err(CHOOSE m \in e : TRUE))
            ELSE /\ pc' = [pc EXCEPT ![p] = "stake_send"]
                 /\ UNCHANGED <<ret, readers, writer>>
    /\ UNCHANGED <<config, disk, env, cmd, rpc_calls, tx_sends>>

\* Variant of stake_send that sends again after a transport error.
stake_send_retry(p) ==
    /\ pc[p] = "stake_send"
    /\ tx_sends' = [tx_sends EXCEPT ![p] = @ + 1]
    /\ \E pending \in SendResults :
         /\ local' = [local EXCEPT ![p].pending = pending]
         /\ IF pending.tag = "Ok"
            THEN Return(p, Ok(stake_ok(cmd[p], pending.value)))
            ELSE UNCHANGED <<pc, ret, readers, writer>>
    /\ UNCHANGED <<config, disk, env, cmd, rpc_calls>>

stake_send(p) ==
    /\ pc[p] = "stake_send"
    /\ tx_sends' = [tx_sends EXCEPT ![p] = @ + 1]
    /\ \E pending \in SendResults :
         /\ local' = [local EXCEPT ![p].pending = pending]
         /\ IF pending.tag = "Ok"
            THEN Return(p, Ok(stake_ok(cmd[p], pending.value)))
            ELSE Return(p, ErrWith("Failed to send stake transaction", pending.msg))
    /\ UNCHANGED <<config, disk, env, cmd, rpc_calls>>

\* ------------------------------------------------------------------ unstake
\* The checks of unstake before its transaction is sent.
unstake_check(wm, cfg, provider_ok) ==
    IF wm = None THEN Some("Wallet not connected")
    ELSE IF ~get_signer(wm) THEN Some("Wallet not initialized")
    ELSE IF ~url_parse_ok(cfg.rpc_url) THEN Some("Invalid RPC URL")
    ELSE IF ~provider_ok THEN Some("Failed to create provider")
    ELSE None

unstake_ok(tx_hash) ==
    [success |-> TRUE,
     tx_hash |-> Some(tx_hash),
     new_stake_wei |-> <<"0">>,
     error |-> None]

unstake_lock(p) ==
    /\ Start(p, [NoCmd EXCEPT !.name = "unstake"], "unstake_check")
    /\ read_lock(p)
    /\ UNCHANGED <<config, disk, env>>

unstake_pre(p) ==
    /\ pc[p] = "unstake_check"
    /\ \E provider_ok \in BOOLEAN :
         LET e == unstake_check(wallet_manager, config, provider_ok) IN
         /\ local' = [local EXCEPT ![p].provider = ProviderState(e)]
         /\ IF e # None
            THEN Return(p, Err(CHOOSE m \in e : TRUE))
            ELSE /\ pc' = [pc EXCEPT ![p] = "unstake_send"]
                 /\ UNCHANGED <<ret, readers, writer>>
    /\ UNCHANGED <<config, disk, env, cmd, rpc_calls, tx_sends>>

unstake_send(p) ==
    /\ pc[p] = "unstake_send"
    /\ tx_sends' = [tx_sends EXCEPT ![p] = @ + 1]
    /\ \E pending \in SendResults :
         /\ local' = [local EXCEPT ![p].pending = pending]
         /\ IF pending.tag = "Ok"
            THEN Return(p, Ok(unstake_ok(pending.value)))
            ELSE Return(p, ErrWith("Failed to send unstake transaction", pending.msg))
    /\ UNCHANGED <<config, disk, env, cmd, rpc_calls>>

\* ------------------------------------------------------------ claim_rewards
\* The checks of claim_rewards before its transaction is sent.
claim_rewards_check(wm, cfg, provider_ok) ==
    IF wm = None THEN Some("Wallet not connected")
    ELSE IF ~get_signer(wm) THEN Some("Wallet not initialized")
    ELSE IF ~url_parse_ok(cfg.rpc_url) THEN Some("Invalid RPC URL")
    ELSE IF ~provider_ok THEN Some("Failed to create provider")
    ELSE None

claim_rewards_ok(tx_hash) ==
    [success |-> TRUE,
     tx_hash |-> Some(tx_hash),
     amount_claimed_wei |-> <<"0">>,
     error |-> None]

claim_rewards_lock(p) ==
    /\ Start(p, [NoCmd EXCEPT !.name = "claim_rewards"], "claim_check")
    /\ read_lock(p)
    /\ UNCHANGED <<config, disk, env>>

claim_rewards_pre(p) ==
    /\ pc[p] = "claim_check"
    /\ \E provider_ok \in BOOLEAN :
         LET e == claim_rewards_check(wallet_manager, config, provider_ok) IN
         /\ local' = [local EXCEPT ![p].provider = ProviderState(e)]
         /\ IF e # None
            THEN Return(p, Err(CHOOSE m \in e : TRUE))
            ELSE /\ pc' = [pc EXCEPT ![p] = "claim_send"]
                 /\ UNCHANGED <<ret, readers, writer>>
    /\ UNCHANGED <<config, disk, env, cmd, rpc_calls, tx_sends>>

claim_rewards_send(p) ==
    /\ pc[p] = "claim_send"
    /\ tx_sends' = [tx_sends EXCEPT ![p] = @ + 1]
    /\ \E pending \in SendResults :
         /\ local' = [local EXCEPT ![p].pending = pending]
         /\ IF pending.tag = "Ok"
            THEN Return(p, Ok(claim_rewards_ok(pending.value)))
            ELSE Return(p, ErrWith("Failed to claim rewards", pending.msg))
    /\ UNCHANGED <<config, disk, env, cmd, rpc_calls>>

\* -------------------------------------------------------- enable_auto_claim
\* Variant of set_auto_claim that resets an omitted threshold.
set_auto_claim_reset(cfg, enabled, threshold_wei, interval_hours) ==
    [cfg EXCEPT
       !.auto_claim = enabled,
       !.auto_claim_threshold_wei =
           IF threshold_wei # None THEN CHOOSE t \in threshold_wei : TRUE
           ELSE "0",
       !.auto_claim_interval_hours =
           IF interval_hours # None THEN CHOOSE i \in interval_hours : TRUE
           ELSE @]

\* The assignments of enable_auto_claim to inner.config.earnings.
set_auto_claim(cfg, enabled, threshold_wei, interval_hours) ==
    [cfg EXCEPT
       !.auto_claim = enabled,
       !.auto_claim_threshold_wei =
           IF threshold_wei # None THEN CHOOSE t \in threshold_wei : TRUE
           ELSE @,
       !.auto_claim_interval_hours =
           IF interval_hours # None THEN CHOOSE i \in interval_hours : TRUE
           ELSE @]

enable_auto_claim_lock(p) ==
    /\ \E en \in BOOLEAN,
          th \in ThresholdArgs,
          ih \in IntervalArgs :
         Start(p, [NoCmd EXCEPT !.name = "enable_auto_claim", !.enabled = en,
                                !.threshold_wei = th, !.interval_hours = ih],
               "eac_body")
    /\ write_lock(p)
    /\ UNCHANGED <<config, disk, env>>

\* The body under the write guard: the assignments, then config.save(),
\* which writes the configuration out or fails.
enable_auto_claim_body(p) ==
    /\ pc[p] = "eac_body"
    /\ config' = set_auto_claim(config, cmd[p].enabled, cmd[p].threshold_wei,
                                cmd[p].interval_hours)
    /\ \E saved \in BOOLEAN :
         IF saved
         THEN /\ disk' = config'
              /\ Return(p, Ok("unit"))
         ELSE /\ disk' = disk
              /\ Return(p, Err("save failed"))
    /\ UNCHANGED <<env, cmd, local, rpc_calls, tx_sends>>

\* ------------------------------------------------------------ specification
\* One step of task p: any step of any command.
Step(p) ==
    \/ get_staking_info_lock(p)
    \/ get_staking_info_resolve(p)
    \/ get_staking_info_getStake(p)
    \/ get_staking_info_pendingRewards(p)
    \/ stake_lock(p)
    \/ stake_pre(p)
    \/ stake_send(p)
    \/ unstake_lock(p)
    \/ unstake_pre(p)
    \/ unstake_send(p)
    \/ claim_rewards_lock(p)
    \/ claim_rewards_pre(p)
    \/ claim_rewards_send(p)
    \/ enable_auto_claim_lock(p)
    \/ enable_auto_claim_body(p)
    \/ get_pending_rewards_lock(p)
    \/ get_pending_rewards_resolve(p)
    \/ get_pending_rewards_pendingRewards(p)

\* Commands invoked one after another by one task, in every environment.
Next == Step("p1")

Spec == Init /\ [][Next]_vars

\* Commands of all tasks interleaved, for a connected wallet with a signer
\* and a configuration whose RPC URL parses.
InitConcurrent ==
    /\ Init
    /\ wallet_manager = Some([address |-> Some("0xA11CE"), signer |-> TRUE])
    /\ url_parse_ok(config.rpc_url)

NextConcurrent == \E p \in Procs : Step(p)

SpecConcurrent == InitConcurrent /\ [][NextConcurrent]_vars

\* ================================================================== claims
TxCommands == {"stake", "unstake", "claim_rewards"}

\* Task p has returned from command name.
Returned(p, name) == pc[p] = "done" /\ cmd[p].name = name

\* The TransactionOutcome a caller sees in a returned Result: an Err is a
\* failure that carries its message and no transaction id.
OutcomeSuccess(r) == r.tag = "Ok" /\ r.value.success

OutcomeTxId(r) == IF r.tag = "Ok" THEN r.value.tx_hash ELSE None

OutcomeError(r) == IF r.tag = "Ok" THEN r.value.error ELSE Some(r.msg)

\* A precondition of the transactional command of p does not hold.
PreconditionFails(p) ==
    \/ wallet_manager = None
    \/ ~get_signer(wallet_manager)
    \/ cmd[p].name = "stake" /\ U256_from_str(cmd[p].amount_wei).tag = "Err"
    \/ ~url_parse_ok(config.rpc_url)
    \/ local[p].provider = "failed"

NoSigner == wallet_manager # None /\ ~get_signer(wallet_manager)

\* C1: a transactional command whose precondition fails (no wallet, no
\* signer, unparsable amount, unparsable RPC URL, provider construction
\* failure) returns a failure with a message and no transaction id, and has
\* issued no network call.
C1_PreconditionFailure ==
    \A p \in Procs :
      (pc[p] = "done" /\ cmd[p].name \in TxCommands /\ PreconditionFails(p))
      => /\ ~OutcomeSuccess(ret[p])
         /\ OutcomeTxId(ret[p]) = None
         /\ OutcomeError(ret[p]) # None
         /\ OutcomeError(ret[p]) # Some("")
         /\ rpc_calls[p] = 0
         /\ tx_sends[p] = 0

\* C1 witness: stake has returned for a connected wallet without a signer.
C1_Witness ==
    \E p \in Procs :
      /\ Returned(p, "stake")
      /\ NoSigner
      /\ U256_from_str(cmd[p].amount_wei).tag = "Ok"
      /\ ret[p] = Err("Wallet not initialized")

\* The sum of staked_wei over the returned positions.
RECURSIVE SumStaked(_)
SumStaked(positions) ==
    IF positions = <<>> THEN 0
    ELSE DecimalValue(Head(positions).staked_wei) + SumStaked(Tail(positions))

\* The sum of pending_rewards_wei over the returned positions.
RECURSIVE SumPending(_)
SumPending(positions) ==
    IF positions = <<>> THEN 0
    ELSE DecimalValue(Head(positions).pending_rewards_wei)
         + SumPending(Tail(positions))

\* get_staking_info of p has returned a summary.
Summary(p) == Returned(p, "get_staking_info") /\ ret[p].tag = "Ok"

\* C2: in every returned summary total_staked is the sum of staked_amount
\* over the positions and total_pending_rewards is the sum of pending_rewards
\* over the positions.
C2_Summation ==
    \A p \in Procs :
      Summary(p)
      => /\ DecimalValue(ret[p].value.total_staked_wei)
              = SumStaked(ret[p].value.staked_by_service)
         /\ DecimalValue(ret[p].value.pending_rewards_wei)
              = SumPending(ret[p].value.staked_by_service)

\* C3: for a connected wallet whose stake query answered, the service is in
\* positions exactly when its staked amount or its pending rewards are nonzero.
C3_PositionIffNonzero ==
    \A p \in Procs :
      (Summary(p) /\ wallet_manager # None /\ local[p].stake_result.tag = "Ok")
      => ( ret[p].value.staked_by_service # <<>>
           <=> \/ local[p].stake_result.value > 0
               \/ local[p].pending.tag = "Ok" /\ local[p].pending.value > 0 )

\* C4: for a connected wallet, a failed stake query still yields a summary,
\* without the service in positions and with nothing of it in either total.
C4_StakeQueryFailure ==
    \A p \in Procs :
      ( /\ Returned(p, "get_staking_info")
        /\ wallet_manager # None
        /\ local[p].stake_result.tag = "Err" )
      => /\ ret[p].tag = "Ok"
         /\ ret[p].value.staked_by_service = <<>>
         /\ DecimalValue(ret[p].value.total_staked_wei) = 0
         /\ DecimalValue(ret[p].value.pending_rewards_wei) = 0

\* Task p returns from enable_auto_claim in this step.
EnableAutoClaimReturns(p) == pc[p] = "eac_body" /\ pc'[p] = "done"

\* C5: when enable_auto_claim returns a failure because the save failed,
\* the configuration later commands read is the one from before the call.
C5_UnchangedOnSaveFailure ==
    [][ \A p \in Procs :
          (EnableAutoClaimReturns(p) /\ ret'[p].tag = "Err")
          => config' = config ]_vars

\* C6: enable_auto_claim sets the flag to the given value, changes the stored
\* threshold and the stored interval only when one is given, and changes no
\* other configuration field; no other step changes the configuration.
C6_PartialUpdate ==
    [][ IF \E p \in Procs : EnableAutoClaimReturns(p)
        THEN \A p \in Procs :
               EnableAutoClaimReturns(p)
               => /\ config'.auto_claim = cmd[p].enabled
                  /\ config'.auto_claim_threshold_wei \in
                       IF cmd[p].threshold_wei = None
                       THEN {config.auto_claim_threshold_wei}
                       ELSE cmd[p].threshold_wei
                  /\ config'.auto_claim_interval_hours \in
                       IF cmd[p].interval_hours = None
                       THEN {config.auto_claim_interval_hours}
                       ELSE cmd[p].interval_hours
                  /\ config'.rpc_url = config.rpc_url
                  /\ wallet_manager' = wallet_manager
        ELSE config' = config ]_vars

\* C6 witness: a call that gave neither threshold nor interval has returned
\* and saved, its flag stored and the stored threshold still in place.
C6_Witness ==
    \E p \in Procs :
      /\ Returned(p, "enable_auto_claim")
      /\ cmd[p].threshold_wei = None
      /\ cmd[p].interval_hours = None
      /\ cmd[p].enabled
      /\ ret[p].tag = "Ok"
      /\ config.auto_claim
      /\ config.auto_claim_threshold_wei = "500"
      /\ disk = config

\* C7: get_staking_info for a disconnected wallet returns the zero summary
\* without a network query, with the persisted auto-claim flag in it.
C7_DisconnectedSummary ==
    \A p \in Procs :
      (Returned(p, "get_staking_info") /\ wallet_manager = None)
      => /\ ret[p].tag = "Ok"
         /\ DecimalValue(ret[p].value.total_staked_wei) = 0
         /\ DecimalValue(ret[p].value.pending_rewards_wei) = 0
         /\ ret[p].value.staked_by_service = <<>>
         /\ ret[p].value.can_unstake = FALSE
         /\ rpc_calls[p] = 0
         /\ tx_sends[p] = 0
         /\ ret[p].value.auto_claim_enabled = disk.auto_claim

\* The message each transactional command puts before a transport error.
SendFailureMessages ==
    [stake |-> "Failed to send stake transaction",
     unstake |-> "Failed to send unstake transaction",
     claim_rewards |-> "Failed to claim rewards"]

\* C8: an invocation sends at most one transaction; once it has sent, it has
\* returned: the failure with the transport error, or the success.
C8_AtMostOneSend ==
    \A p \in Procs :
      /\ tx_sends[p] <= 1
      /\ tx_sends[p] = 1
         => /\ pc[p] = "done"
            /\ cmd[p].name \in TxCommands
            /\ IF local[p].pending.tag = "Err"
               THEN ret[p] = ErrWith(SendFailureMessages[cmd[p].name],
                                     local[p].pending.msg)
               ELSE OutcomeSuccess(ret[p])

\* C8 witness: a stake whose submission failed has returned the failure.
C8_Witness ==
    \E p \in Procs :
      /\ Returned(p, "stake")
      /\ tx_sends[p] = 1
      /\ local[p].pending.tag = "Err"
      /\ ret[p].tag = "Err"

\* C9: a stake whose amount parses, with wallet and signer present, that the
\* network accepted returns success, a transaction id, no error and the
\* requested amount without a contract read; and any returned stake has a
\* transaction id exactly when it succeeded.
C9_StakeSuccess ==
    \A p \in Procs :
      Returned(p, "stake")
      => /\ ( /\ U256_from_str(cmd[p].amount_wei).tag = "Ok"
              /\ wallet_manager # None
              /\ local[p].pending.tag = "Ok" )
            => /\ ret[p].tag = "Ok"
               /\ ret[p].value.success
               /\ ret[p].value.tx_hash = Some(local[p].pending.value)
               /\ ret[p].value.error = None
               /\ ret[p].value.new_stake_wei = cmd[p].amount_wei
               /\ rpc_calls[p] = 0
         /\ OutcomeTxId(ret[p]) # None <=> OutcomeSuccess(ret[p])

\* C9 witness: an accepted stake of a nonzero amount has returned.
C9_Witness ==
    \E p \in Procs :
      /\ Returned(p, "stake")
      /\ cmd[p].amount_wei = <<"1", "5">>
      /\ local[p].pending.tag = "Ok"
      /\ ret[p].tag = "Ok"

\* Task p holds a guard of state.inner.
InCommand(p) == pc[p] \notin {"idle", "done"}

\* C10: while enable_auto_claim holds the store, no other command holds it.
C10_WriterExcludes ==
    \A p \in Procs :
      pc[p] = "eac_body"
      => /\ writer = {p}
         /\ readers = {}
         /\ \A q \in Procs \ {p} : ~InCommand(q)

\* C10 witness: enable_auto_claim holds the store after another task's
\* command has finished.
C10_Witness ==
    \E p \in Procs, q \in Procs :
      /\ p # q
      /\ pc[p] = "eac_body"
      /\ Returned(q, "get_staking_info")

\* Two read-only commands hold the store together.
ReadersShare ==
    \E p \in Procs, q \in Procs :
      /\ p # q
      /\ pc[p] = "gsi_getStake"
      /\ pc[q] = "stake_send"
      /\ readers = {p, q}

====
